---- MODULE Spec2Model ----
(***************************************************************************)
(* Model of src/datastore/tasks/tasks.go: a task list kept in Cloud        *)
(* Datastore, served by one HTTP handler that dispatches on the method.    *)
(*                                                                         *)
(* Strings are sequences of one-character strings.  The Datastore client   *)
(* (Put with an incomplete key, GetAll with Order("created"), and          *)
(* RunInTransaction with optimistic concurrency and MaxAttempts retries)   *)
(* is modelled by its documented contract at the places tasks.go calls it. *)
(* Creation times are in the unit the store keeps (microseconds).          *)
(***************************************************************************)
EXTENDS Integers, Sequences, FiniteSets, TLC

\* ------------------------------------------------------------------ bounds
\* Largest identifier the store hands out (and so the most entities).
MaxId == 2
\* Largest reading of time.Now().
MaxTime == 2

\* ------------------------------------------------------- program constants
\* readMsg copies at most this many bytes of the request body.
MsgLimit == 256
\* RunInTransaction gives up after this many attempts.
MaxAttempts == 3
\* strconv.ParseInt(idStr, 10, 64): an int64 has at most 19 significant digits.
Int64Digits == 19

\* Concurrent request goroutines of the host HTTP server.
Procs == {"h1", "h2"}

\* The readings time.Now() gives: two tasks are created at the same
\* instant or at different ones, in either order of their keys.
Clock == 1..MaxTime

Digits == {"0", "1", "2", "3", "4", "5", "6", "7", "8", "9"}

DigitVal(c) ==
    CASE c = "0" -> 0 [] c = "1" -> 1 [] c = "2" -> 2 [] c = "3" -> 3
      [] c = "4" -> 4 [] c = "5" -> 5 [] c = "6" -> 6 [] c = "7" -> 7
      [] c = "8" -> 8 [] c = "9" -> 9

\* |math.MinInt64| = 9223372036854775808 and math.MaxInt64 = ...807, as digits.
Int64Cutoff(neg) ==
    << 9, 2, 2, 3, 3, 7, 2, 0, 3, 6, 8, 5, 4, 7, 7, 5, 8, 0, IF neg THEN 8 ELSE 7 >>

\* ----------------------------------------------------------------- inputs
\* 255 zeros, a one and a trailing letter: 257 bytes, of which readMsg keeps
\* the first 256, which read as the integer 1.
LongBody == [i \in 1..(MsgLimit + 1) |->
                IF i < MsgLimit THEN "0" ELSE IF i = MsgLimit THEN "1" ELSE "x"]

\* math.MaxInt64 + 1 in decimal.
OverflowBody ==
    << "9", "2", "2", "3", "3", "7", "2", "0", "3", "6",
       "8", "5", "4", "7", "7", "5", "8", "0", "8" >>

\* Request bodies sent with POST (task descriptions).
PostBodies == { << "a" >> }

\* Request bodies sent with DELETE.
DeleteBodies ==
    { << "1" >>, << "+", "2" >>, << "3" >>, << "0" >>, << "-", "1" >>,
      << >>, << "1", "x" >>, OverflowBody, LongBody }

\* Methods other than GET, POST and DELETE.
OtherMethods == { "PUT", "PATCH" }

\* ---------------------------------------------------------------- helpers
Min(a, b) == IF a < b THEN a ELSE b

\* readMsg: the first MsgLimit bytes of the body; io.EOF is not an error,
\* any other read error gives the empty string and the error.
readMsg(body, readOK) ==
    IF readOK
    THEN [data |-> SubSeq(body, 1, Min(Len(body), MsgLimit)), err |-> "nil"]
    ELSE [data |-> << >>, err |-> "read error"]

\* The digits of s from its first non-zero digit on.
StripZeros(s) ==
    LET nz == {i \in 1..Len(s) : s[i] # "0"}
    IN  IF nz = {} THEN << >>
        ELSE SubSeq(s, CHOOSE i \in nz : \A j \in nz : i <= j, Len(s))

RECURSIVE Horner(_, _)
Horner(acc, s) ==
    IF s = << >> THEN acc ELSE Horner(acc * 10 + DigitVal(Head(s)), Tail(s))

\* s (Int64Digits digits) is larger than the cutoff, compared digit by digit.
RECURSIVE AboveCutoff(_, _, _)
AboveCutoff(s, cut, i) ==
    IF i > Len(s) THEN FALSE
    ELSE IF DigitVal(s[i]) > cut[i] THEN TRUE
    ELSE IF DigitVal(s[i]) < cut[i] THEN FALSE
    ELSE AboveCutoff(s, cut, i + 1)

\* Variant: reads the leading digits and ignores what follows them, as
\* fmt.Sscanf("%d") or C's atoi would.
ParseInt_LeadingDigits(s) ==
    LET stop == {i \in 1..Len(s) : s[i] \notin Digits}
        ds   == IF stop = {} THEN s
                ELSE SubSeq(s, 1, (CHOOSE i \in stop : \A j \in stop : i <= j) - 1)
    IN  IF ds = << >> THEN [val |-> 0, err |-> "ErrSyntax"]
        ELSE IF Len(StripZeros(ds)) >= Int64Digits THEN [val |-> 0, err |-> "ErrRange"]
        ELSE [val |-> Horner(0, StripZeros(ds)), err |-> "nil"]

\* strconv.ParseInt(s, 10, 64): optional sign, then one or more decimal
\* digits, the value within int64.
ParseInt(s) ==
    IF s = << >> THEN [val |-> 0, err |-> "ErrSyntax"]
    ELSE
      LET signed == Head(s) \in {"+", "-"}
          neg    == Head(s) = "-"
          ds     == IF signed THEN Tail(s) ELSE s
          sig    == StripZeros(ds)
      IN  IF ds = << >> \/ \E i \in 1..Len(ds) : ds[i] \notin Digits
          THEN [val |-> 0, err |-> "ErrSyntax"]
          ELSE IF Len(sig) > Int64Digits
                  \/ (Len(sig) = Int64Digits /\ AboveCutoff(sig, Int64Cutoff(neg), 1))
          THEN [val |-> 0, err |-> "ErrRange"]
          ELSE [val |-> IF neg THEN 0 - Horner(0, sig) ELSE Horner(0, sig),
                err |-> "nil"]

\* ------------------------------------------------------------------ state
VARIABLES
    store,   \* the Task entities of the datastore, by the ID of their key
    txn,     \* per goroutine: the MarkDone transaction it is in, or Idle
    resp,    \* what the last step answered: method, status, body, call made
    added,   \* key ID -> description, for every AddTask that returned a key
    marked   \* the IDs for which a MarkDone transaction committed

vars == << store, txn, resp, added, marked >>

\* The zero value of Task: `var task Task`.
ZeroTask == [Desc |-> << >>, Created |-> 0, Done |-> FALSE, Id |-> 0]

Idle == [pc |-> "idle"]

\* The call the handler made to AddTask, MarkDone or ListTasks, and its error.
Call(op, arg, err) == [op |-> op, arg |-> arg, err |-> err]

NoCall == Call("none", 0, "nil")

\* A response: WriteHeader is only called on failures, so a body written
\* without it goes out with status 200.
Response(method, status, out, call) ==
    [method |-> method, status |-> status, out |-> out, call |-> call]

NoResp == Response("", 0, << >>, NoCall)

Msg(text, arg) == [text |-> text, arg |-> arg]

Init ==
    /\ store = << >>
    /\ txn = [p \in Procs |-> Idle]
    /\ resp = NoResp
    /\ added = << >>
    /\ marked = {}

\* ------------------------------------------------------------- operations
\* client.Put / tx.Put: the entity under key id becomes task.
Put(s, id, task) ==
    [k \in DOMAIN s \cup {id} |-> IF k = id THEN task ELSE s[k]]

\* Variant: the description is not copied into the stored Task.
AddTask_DropsDesc(s, desc, now, id) ==
    [store |-> Put(s, id, [Desc |-> << >>, Created |-> now, Done |-> FALSE, Id |-> 0]),
     key   |-> [ID |-> id]]

\* AddTask: a Task with the description and the current time, stored under
\* a key completed by the store; the result is the store and the key.
AddTask(s, desc, now, id) ==
    [store |-> Put(s, id, [Desc |-> desc, Created |-> now, Done |-> FALSE, Id |-> 0]),
     key   |-> [ID |-> id]]

\* DeleteTask: deletes the entity with the given ID (no handler calls it).
DeleteTask(s, id) ==
    [k \in DOMAIN s \ {id} |-> s[k]]

\* Variant: the query has no Order("created") and returns in key order.
FirstKey_ByKey(s, S) ==
    CHOOSE k \in S : \A j \in S : k <= j

\* The key of S that the query returns first: least "created", then least key.
FirstKey(s, S) ==
    CHOOSE k \in S : \A j \in S :
        \/ s[k].Created < s[j].Created
        \/ (s[k].Created = s[j].Created /\ k <= j)

RECURSIVE QueryKeys(_, _)
QueryKeys(s, S) ==
    IF S = {} THEN << >>
    ELSE LET k == FirstKey(s, S) IN << k >> \o QueryKeys(s, S \ {k})

\* client.GetAll(NewQuery("Task").Order("created")): the keys and, in the
\* same order, the entities as stored.
GetAll(s) ==
    LET keys == QueryKeys(s, DOMAIN s)
    IN  [keys |-> keys, tasks |-> [i \in 1..Len(keys) |-> s[keys[i]]]]

\* The loop of ListTasks: tasks[i].Id = keys[i].ID.
SetIds(keys, tasks) ==
    [i \in 1..Len(tasks) |-> [tasks[i] EXCEPT !.Id = keys[i]]]

ListTasks(s) ==
    LET r == GetAll(s) IN SetIds(r.keys, r.tasks)

\* Variant: the error of tx.Get for a missing entity is dropped, so the
\* transaction goes on with the zero Task.
TxGetErr_IgnoresMissing(s, id) ==
    IF id = 0 THEN "ErrInvalidKey" ELSE "nil"

\* tx.Get(key, &task): an incomplete key (ID 0) cannot be read, a key with
\* no entity gives ErrNoSuchEntity.
TxGetErr(s, id) ==
    IF id = 0 THEN "ErrInvalidKey"
    ELSE IF id \notin DOMAIN s THEN "ErrNoSuchEntity"
    ELSE "nil"

\* What tx.Get leaves in task.
TxLoad(s, id) == IF id \in DOMAIN s THEN s[id] ELSE ZeroTask

\* Variant: the Task written is a fresh one, not the one tx.Get loaded.
SetDone_FreshTask(task) == [ZeroTask EXCEPT !.Done = TRUE]

\* Variant: the flag is flipped instead of set.
SetDone_Toggles(task) == [task EXCEPT !.Done = ~@]

\* task.Done = true
SetDone(task) == [task EXCEPT !.Done = TRUE]

\* Variant: the DELETE method is wired to DeleteTask.
TxPut_Deletes(s, id, task) == DeleteTask(s, id)

\* tx.Put(key, &task), applied at commit.
TxPut(s, id, task) == Put(s, id, task)

\* Variant: the read and the write are not in one transaction, so a commit
\* never sees a conflict.
CommitConflict_Never(t) == FALSE

\* Commit fails with ErrConcurrentTransaction when an entity the
\* transaction read was written by another commit since.
CommitConflict(t) == t.conflict

\* readMsg then strconv.ParseInt on each DELETE body, computed once.
Parsed == [b \in DeleteBodies |-> ParseInt(readMsg(b, TRUE).data)]

\* ---------------------------------------------------------------- actions
\* Some goroutine is free to serve a request.
Free == \E p \in Procs : txn[p] = Idle

\* case http.MethodGet
HandleGet ==
    /\ Free
    /\ \/ resp' = Response("GET", 200, << Msg("tasks", ListTasks(store)) >>,
                           Call("ListTasks", 0, "nil"))
       \/ resp' = Response("GET", 500,
                           << Msg("failed to read from datastore: %s", "rpc error") >>,
                           Call("ListTasks", 0, "rpc error"))
    /\ UNCHANGED << store, txn, added, marked >>

\* case http.MethodPost
HandlePost(body) ==
    /\ Free
    /\ \/ /\ resp' = Response("POST", 500,
                              << Msg("failed to read message: %s", readMsg(body, FALSE).err) >>,
                              NoCall)
          /\ UNCHANGED << store, added >>
       \/ /\ resp' = Response("POST", 500,
                              << Msg("failed to create task: %s", "rpc error") >>,
                              Call("AddTask", 0, "rpc error"))
          /\ UNCHANGED << store, added >>
       \/ \E now \in Clock, id \in (1..MaxId) \ DOMAIN store :
            LET r == AddTask(store, readMsg(body, TRUE).data, now, id)
            IN  /\ store' = r.store
                /\ added' = [k \in DOMAIN added \cup {r.key.ID} |->
                                IF k = r.key.ID THEN readMsg(body, TRUE).data ELSE added[k]]
                /\ resp' = Response("POST", 200,
                                    << Msg("created new task with ID %d", r.key.ID) >>,
                                    Call("AddTask", r.key.ID, "nil"))
    /\ UNCHANGED << txn, marked >>

\* The tail of the DELETE case once MarkDone has returned err.
MarkDoneResponse(id, err) ==
    Response("DELETE",
             IF err # "nil" THEN 500 ELSE 200,
             (IF err # "nil"
              THEN << Msg("failed to mark task done: %s", err) >> ELSE << >>)
               \o << Msg("task %d marked done", id) >>,
             Call("MarkDone", id, err))

\* MarkDone up to the tx.Get of an attempt: an error ends the request,
\* otherwise the goroutine holds the task it read, to be committed.
RunGet(p, id, n, ge) ==
    IF ge # "nil"
    THEN /\ resp' = MarkDoneResponse(id, ge)
         /\ txn' = [txn EXCEPT ![p] = Idle]
    ELSE /\ resp' = NoResp
         /\ txn' = [txn EXCEPT ![p] =
                      [pc |-> "commit", id |-> id, task |-> TxLoad(store, id),
                       n |-> n, conflict |-> FALSE]]

\* case http.MethodDelete: read and parse the body, then MarkDone up to the
\* tx.Get of its first attempt.
HandleDelete(p, body) ==
    /\ txn[p] = Idle
    /\ \/ /\ resp' = Response("DELETE", 500,
                              << Msg("failed to read message: %s", readMsg(body, FALSE).err) >>,
                              NoCall)
          /\ UNCHANGED txn
       \/ /\ Parsed[body].err # "nil"
          /\ resp' = Response("DELETE", 400,
                              << Msg("failed to parse ID (must be int64): %s",
                                     [num |-> readMsg(body, TRUE).data,
                                      err |-> Parsed[body].err]) >>,
                              NoCall)
          /\ UNCHANGED txn
       \/ /\ Parsed[body].err = "nil"
          /\ \E ge \in {TxGetErr(store, Parsed[body].val), "rpc error"} :
                RunGet(p, Parsed[body].val, 1, ge)
    /\ UNCHANGED << store, added, marked >>

\* The function passed to RunInTransaction, run again after a conflict.
TxGet(p) ==
    /\ txn[p].pc = "get"
    /\ \E ge \in {TxGetErr(store, txn[p].id), "rpc error"} :
          RunGet(p, txn[p].id, txn[p].n, ge)
    /\ UNCHANGED << store, added, marked >>

\* task.Done = true, tx.Put and the commit of RunInTransaction.
TxCommit(p) ==
    /\ txn[p].pc = "commit"
    /\ LET id == txn[p].id
       IN  \/ /\ resp' = MarkDoneResponse(id, "rpc error")
              /\ txn' = [txn EXCEPT ![p] = Idle]
              /\ UNCHANGED << store, marked >>
           \/ /\ CommitConflict(txn[p])
              /\ IF txn[p].n < MaxAttempts
                 THEN /\ resp' = NoResp
                      /\ txn' = [txn EXCEPT ![p] =
                                   [txn[p] EXCEPT !.pc = "get", !.task = ZeroTask,
                                                  !.n = @ + 1, !.conflict = FALSE]]
                 ELSE /\ resp' = MarkDoneResponse(id, "ErrConcurrentTransaction")
                      /\ txn' = [txn EXCEPT ![p] = Idle]
              /\ UNCHANGED << store, marked >>
           \/ /\ ~CommitConflict(txn[p])
              /\ store' = TxPut(store, id, SetDone(txn[p].task))
              /\ marked' = marked \cup {id}
              /\ resp' = MarkDoneResponse(id, "nil")
              /\ txn' = [q \in Procs |->
                           IF q = p THEN Idle
                           ELSE IF txn[q].pc = "commit" /\ txn[q].id = id
                           THEN [txn[q] EXCEPT !.conflict = TRUE]
                           ELSE txn[q]]
    /\ UNCHANGED added

\* Variant: the switch has no default case and an unknown method lists.
HandleDefault_Lists(method) ==
    /\ Free
    /\ resp' = Response(method, 200, << Msg("tasks", ListTasks(store)) >>,
                        Call("ListTasks", 0, "nil"))
    /\ UNCHANGED << store, txn, added, marked >>

\* default
HandleDefault(method) ==
    /\ Free
    /\ resp' = Response(method, 405, << >>, NoCall)
    /\ UNCHANGED << store, txn, added, marked >>

Next ==
    \/ HandleGet
    \/ \E b \in PostBodies : HandlePost(b)
    \/ \E p \in Procs, b \in DeleteBodies : HandleDelete(p, b)
    \/ \E p \in Procs : TxGet(p)
    \/ \E p \in Procs : TxCommit(p)
    \/ \E m \in OtherMethods : HandleDefault(m)

Spec == Init /\ [][Next]_vars

\* ----------------------------------------------------------------- claims
SuccessText == "task %d marked done"

\* The last step returned from MarkDone(id) with error err.
MarkDoneReturned(r, err) == r.call.op = "MarkDone" /\ r.call.err = err

\* C1: a DELETE whose body parses as n is answered `task <n> marked done`
\* only when MarkDone succeeded; when MarkDone returns an error the answer
\* is a 500 failure and the success message is not in it.
C1_SuccessOnlyWhenMarkDoneSucceeded ==
    (resp.method = "DELETE" /\ resp.call.op = "MarkDone") =>
        IF resp.call.err = "nil"
        THEN resp.status = 200 /\ resp.out = << Msg(SuccessText, resp.call.arg) >>
        ELSE /\ resp.status = 500
             /\ \A i \in 1..Len(resp.out) : resp.out[i].text # SuccessText

\* C2: MarkDone on an identifier with no entity returns an error and leaves
\* the store as it was; no entity appears under that identifier.
C2_MarkDoneUnknownId ==
    [][ (resp'.call.op = "MarkDone" /\ resp'.call.arg \notin DOMAIN store)
          => (resp'.call.err # "nil" /\ store' = store) ]_vars

C2_Witness ==
    /\ MarkDoneReturned(resp, "ErrNoSuchEntity")
    /\ resp.call.arg \notin DOMAIN store
    /\ DOMAIN store # {}

\* C3: after a successful MarkDone(k), ListTasks shows task k done with its
\* description, creation time and identifier as before, and every other
\* task as before: the same tasks with the same field values.
C3_MarkDoneFrame ==
    [][ MarkDoneReturned(resp', "nil") =>
          LET k      == resp'.call.arg
              before == ListTasks(store)
              after  == ListTasks(store')
          IN  /\ Len(after) = Len(before)
              /\ \E i \in 1..Len(before) : before[i].Id = k
              /\ \A i \in 1..Len(before) :
                    after[i] = IF before[i].Id = k
                               THEN [before[i] EXCEPT !.Done = TRUE]
                               ELSE before[i] ]_vars

C3_Witness ==
    /\ MarkDoneReturned(resp, "nil")
    /\ \E j \in DOMAIN store : j # resp.call.arg /\ ~store[j].Done
    /\ store[resp.call.arg].Desc # << >>

\* C4: once AddTask(desc) has returned a key, every ListTasks has an element
\* whose identifier is that key's non-zero ID, whose description is desc and
\* whose done flag is false unless MarkDone was applied to that identifier.
C4_AddedIsListed ==
    LET l == ListTasks(store)
    IN  /\ \A k \in DOMAIN added :
              /\ k # 0
              /\ \E i \in 1..Len(l) :
                    /\ l[i].Id = k
                    /\ l[i].Desc = added[k]
                    /\ l[i].Done => k \in marked
        /\ (resp.call.op = "AddTask" /\ resp.call.err = "nil") =>
              /\ resp.call.arg \in DOMAIN added
              /\ resp.out = << Msg("created new task with ID %d", resp.call.arg) >>

C4_Witness ==
    \E j, k \in DOMAIN added :
        /\ j # k
        /\ added[k] = << "a" >>
        /\ store[k].Done
        /\ ~store[j].Done

\* C5: the read and the write of MarkDone are atomic: a MarkDone that
\* commits read the field values that are current when it commits, and
\* writes them back with done set; whatever the interleaving of the
\* MarkDone calls, a task marked done is done with its description kept.
C5_MarkDoneAtomic ==
    [][ /\ \A p \in Procs :
              (/\ txn[p].pc = "commit"
               /\ txn'[p] = Idle
               /\ resp'.call = Call("MarkDone", txn[p].id, "nil"))
              => /\ txn[p].task = store[txn[p].id]
                 /\ store' = [store EXCEPT ![txn[p].id].Done = TRUE]
        /\ \A k \in marked' :
              /\ k \in DOMAIN store'
              /\ store'[k].Done
              /\ store'[k].Desc = added'[k] ]_vars

\* Two MarkDone calls read the same task and one of them has committed.
C5_Witness ==
    \E p \in Procs :
        /\ txn[p].pc = "commit"
        /\ txn[p].conflict
        /\ ~txn[p].task.Done
        /\ resp.call = Call("MarkDone", txn[p].id, "nil")

\* C6: a request with a method other than GET, POST and DELETE is answered
\* 405 and makes no call to the store, whose state stays as it was.
C6_OtherMethod405 ==
    [][ resp'.method \notin {"GET", "POST", "DELETE", ""}
          => /\ resp'.status = 405
             /\ resp'.call = NoCall
             /\ store' = store ]_vars

C6_Witness ==
    /\ resp.method \in OtherMethods
    /\ resp.status = 405
    /\ DOMAIN store # {}

\* The DELETE bodies whose first MsgLimit bytes are not a base-10 int64.
NotInt64 == { << >>, << "1", "x" >>, OverflowBody }

\* C7: a DELETE whose body, once read, does not parse as a base-10 int64 is
\* answered 400; MarkDone is not called and the store stays as it was.
C7_BadIdIs400 ==
    [][ \A p \in Procs, b \in NotInt64 :
          (/\ resp'.method = "DELETE"
           /\ resp'.out[1].text # "failed to read message: %s"
           /\ HandleDelete(p, b))
            => /\ resp'.status = 400
               /\ resp'.call = NoCall
               /\ store' = store ]_vars

C7_Witness ==
    /\ resp.method = "DELETE"
    /\ resp.status = 400
    /\ resp.out[1].arg.num = << "1", "x" >>
    /\ DOMAIN store # {}

\* C8: no request deletes a task: the identifiers in the store never shrink,
\* and a step changes an entity at most by setting its done flag.
C8_NoDeletion ==
    [][ \A k \in DOMAIN store :
          /\ k \in DOMAIN store'
          /\ store'[k] \in { store[k], [store[k] EXCEPT !.Done = TRUE] } ]_vars

C8_Witness ==
    /\ resp.method = "DELETE"
    /\ resp.status = 200
    /\ Cardinality(DOMAIN store) = MaxId
    /\ \A k \in DOMAIN store : store[k].Done

\* C9: ListTasks returns every Task of the store exactly once, in
\* non-decreasing order of creation time, each with the ID of its own key:
\* element i is the entity of key i with that key's ID.
C9_ListTasksOrdered ==
    LET r == GetAll(store)
        l == ListTasks(store)
    IN  /\ Len(l) = Cardinality(DOMAIN store)
        /\ \A k \in DOMAIN store : Cardinality({i \in 1..Len(l) : l[i].Id = k}) = 1
        /\ \A i \in 1..Len(l) :
              /\ l[i].Id = r.keys[i]
              /\ l[i].Id \in DOMAIN store
              /\ l[i] = [store[l[i].Id] EXCEPT !.Id = l[i].Id]
        /\ \A i, j \in 1..Len(l) : i < j => l[i].Created <= l[j].Created
        /\ (resp.method = "GET" /\ resp.status = 200) => resp.out = << Msg("tasks", l) >>

\* A listing of two tasks of which the one with the larger key is older.
C9_Witness ==
    /\ resp.method = "GET"
    /\ resp.status = 200
    /\ \E j, k \in DOMAIN store : j < k /\ store[j].Created > store[k].Created

\* C10: MarkDone on a task that is already done fails only for an error of
\* the store, and when it commits the store is exactly as before; a done
\* flag that is true stays true under every later operation.
C10_MarkDoneIdempotent ==
    [][ /\ (/\ resp'.call.op = "MarkDone"
            /\ resp'.call.arg \in DOMAIN store
            /\ store[resp'.call.arg].Done)
           => /\ resp'.call.err \in {"nil", "rpc error", "ErrConcurrentTransaction"}
              /\ resp'.call.err = "nil" => store' = store
        /\ \A k \in DOMAIN store :
              store[k].Done => (k \in DOMAIN store' /\ store'[k].Done) ]_vars

\* A MarkDone committed on a task that another goroutine had read as done.
C10_Witness ==
    \E q \in Procs :
        /\ txn[q].pc = "commit"
        /\ txn[q].task.Done
        /\ txn[q].conflict
        /\ resp.call = Call("MarkDone", txn[q].id, "nil")

====
